---- MODULE Spec2Model ----
(***************************************************************************)
(* HEIC-to-JPG converter: the Flask session driver (app.py) and the batch  *)
(* driver (convert_heic_cli.py) as state machines.                         *)
(*                                                                         *)
(* File names are sequences of one-character strings, so that splitext,    *)
(* lower, endswith and the "_N" suffix formatting are computed as the      *)
(* code computes them.  The decoder and the JPEG encoder are the external  *)
(* imaging library: an upload is described by whether it is empty, whether *)
(* it decodes, and the decoded image's mode.                               *)
(***************************************************************************)
EXTENDS Naturals, Sequences, FiniteSets, TLC

VARIABLES
    tempRoot,         \* TEMP_DIR: entry name -> directory or regular file
    pillow_cleans,    \* whether the imaging library removes a file it created when save fails
    pc,               \* convert_files: "idle" | "loop" | "done"
    files,            \* convert_files: request.files.getlist('files')
    idx,              \* convert_files: position of the for loop in files
    session_id,       \* convert_files: the request's session id
    converted_files,  \* convert_files: list of {original, converted}
    failed_files,     \* convert_files: list of {name, error}
    file_counter,     \* convert_files: base name -> occurrence count
    assigned,         \* convert_files: the values jpg_filename has taken, in order
    response          \* convert_files: the JSON response and its status

webVars == <<tempRoot, pillow_cleans, pc, files, idx, session_id,
             converted_files, failed_files, file_counter, assigned, response>>

VARIABLES
    dl,               \* download_zip: per request thread, its position, argument, locals and response
    cleanup_response  \* cleanup: the last response

dlVars == <<dl, cleanup_response>>

VARIABLES
    fs,               \* CLI: the file system, path -> directory or regular file
    args,             \* main: the parsed command line
    cli_pc,           \* main: "idle" | "main" | "folder" | "done" | "crashed"
    run,              \* which run of the command this is
    path_i,           \* main: position of the for loop in args.paths
    queue,            \* convert_folder: the files of sorted(heic_files) still to process
    converted,        \* convert_folder: converted
    failed,           \* convert_folder: failed
    total_converted,  \* main: total_converted
    total_failed,     \* main: total_failed
    log,              \* the calls of convert_heic_to_jpg of this run, in order
    first_run         \* what the first run reported and did, once it is re-run

cliVars == <<fs, args, cli_pc, run, path_i, queue, converted, failed,
             total_converted, total_failed, log, first_run>>

vars == <<webVars, dlVars, cliVars>>

(***************************************************************************)
(* Bounds                                                                  *)
(***************************************************************************)
\* uploads of one convert request
MaxFiles == 3
\* uploads of a convert request in the specification of the downloads,
\* where only the resulting session directory matters
MaxSessionFiles == 1

(***************************************************************************)
(* String helpers (Python str / os.path)                                   *)
(***************************************************************************)
UpperCase == <<"A","B","C","D","E","F","G","H","I","J","K","L","M",
               "N","O","P","Q","R","S","T","U","V","W","X","Y","Z">>
LowerCase == <<"a","b","c","d","e","f","g","h","i","j","k","l","m",
               "n","o","p","q","r","s","t","u","v","w","x","y","z">>
Digit == <<"0","1","2","3","4","5","6","7","8","9">>

lowerChar(c) ==
    IF \E i \in 1..26 : UpperCase[i] = c
    THEN LowerCase[CHOOSE i \in 1..26 : UpperCase[i] = c]
    ELSE c

\* str.lower()
lower(s) == [i \in 1..Len(s) |-> lowerChar(s[i])]

\* str.endswith(suffix)
endswith(s, suffix) ==
    /\ Len(s) >= Len(suffix)
    /\ SubSeq(s, Len(s) - Len(suffix) + 1, Len(s)) = suffix

\* str.rfind(c), 1-based; 0 when c does not occur
rfind(s, c) ==
    IF \E i \in 1..Len(s) : s[i] = c
    THEN CHOOSE i \in 1..Len(s) : s[i] = c /\ \A j \in (i+1)..Len(s) : s[j] # c
    ELSE 0

\* os.path.splitext: split at the last dot of the last path component,
\* unless only dots precede it there
splitext(p) ==
    LET sepIndex == rfind(p, "/")
        dotIndex == rfind(p, ".")
    IN  IF /\ dotIndex > sepIndex
           /\ \E k \in (sepIndex+1)..(dotIndex-1) : p[k] # "."
        THEN <<SubSeq(p, 1, dotIndex - 1), SubSeq(p, dotIndex, Len(p))>>
        ELSE <<p, <<>>>>

\* f"{n}" for a non-negative int
RECURSIVE str(_)
str(n) == IF n < 10 THEN <<Digit[n + 1]>>
          ELSE str(n \div 10) \o <<Digit[(n % 10) + 1]>>

DotHeic == <<".","h","e","i","c">>
DotHeif == <<".","h","e","i","f">>
DotJpg  == <<".","j","p","g">>

\* filename.lower().endswith(('.heic', '.heif'))
is_heic(filename) ==
    endswith(lower(filename), DotHeic) \/ endswith(lower(filename), DotHeif)

(***************************************************************************)
(* The imaging library                                                     *)
(***************************************************************************)
\* Image.open raises on bytes that are no image
decodable(bytes) == bytes.image # "none"

\* img.convert('RGB') when img.mode in ('RGBA', 'P')
normalize_mode(mode) == IF mode \in {"RGBA", "P"} THEN "RGB" ELSE mode

\* img.save(path, "JPEG") raises OSError for a mode JPEG cannot hold
jpeg_writable(mode) == mode \in {"1", "L", "RGB", "RGBX", "CMYK", "YCbCr"}

(***************************************************************************)
(* TEMP_DIR entries                                                        *)
(***************************************************************************)
NoArchive == [complete |-> FALSE, members |-> {}, writers |-> {}, clobbered |-> {}]
DirEntry(listing) == [kind |-> "dir", files |-> listing, archive |-> NoArchive]
FileEntry(ar) == [kind |-> "file", files |-> <<>>, archive |-> ar]

\* os.path.exists / os.path.isdir of TEMP_DIR/name
exists(root, name) == name \in DOMAIN root
isdir(root, name)  == name \in DOMAIN root /\ root[name].kind = "dir"

\* a file of a directory written or replaced
put(listing, name, content) == (name :> content) @@ listing

(***************************************************************************)
(* convert_files: one iteration of the for loop                            *)
(***************************************************************************)
\* the duplicate handling of the output file name
jpg_name(base_name, counter) ==
    IF base_name \in DOMAIN counter
    THEN base_name \o <<"_">> \o str(counter[base_name] + 1) \o DotJpg
    ELSE base_name \o DotJpg

\* the registry counting the first occurrence as 1
bump_counter_from_one(base_name, counter) ==
    IF base_name \in DOMAIN counter
    THEN [counter EXCEPT ![base_name] = @ + 1]
    ELSE (base_name :> 1) @@ counter

bump_counter(base_name, counter) ==
    IF base_name \in DOMAIN counter
    THEN [counter EXCEPT ![base_name] = @ + 1]
    ELSE (base_name :> 0) @@ counter

\* img.save(jpg_path, "JPEG"): the file is opened for writing (created or
\* truncated) before the encoder runs; when the encoder raises, the library
\* removes the file only if it had created it, and only in the versions
\* that clean up
save(dir, jpg_filename, mode, cleans) ==
    IF jpeg_writable(mode)
    THEN [ok |-> TRUE, dir |-> put(dir, jpg_filename, "jpeg")]
    ELSE [ok |-> FALSE,
          dir |-> IF cleans /\ jpg_filename \notin DOMAIN dir
                  THEN dir
                  ELSE put(dir, jpg_filename, "truncated")]

\* L is the loop's state: dir (the session directory's files),
\* converted_files, failed_files, file_counter, assigned
process_file(L, file, cleans) ==
    LET filename == file.filename IN
    IF filename = <<>> THEN L
    ELSE IF ~is_heic(filename)
    THEN [L EXCEPT !.failed_files =
            Append(@, [name |-> filename, error |-> "Not a HEIC/HEIF file"])]
    ELSE IF file.bytes.len = 0
    THEN [L EXCEPT !.failed_files =
            Append(@, [name |-> filename, error |-> "Empty file"])]
    ELSE IF ~decodable(file.bytes)
    THEN [L EXCEPT !.failed_files =
            Append(@, [name |-> filename, error |-> "cannot identify image file"])]
    ELSE
        LET mode == normalize_mode(file.bytes.image)
            base_name == splitext(filename)[1]
            jpg_filename == jpg_name(base_name, L.file_counter)
            counter == bump_counter(base_name, L.file_counter)
            saved == save(L.dir, jpg_filename, mode, cleans)
        IN  IF saved.ok
            THEN [L EXCEPT !.dir = saved.dir,
                           !.file_counter = counter,
                           !.assigned = Append(@, [original |-> filename, converted |-> jpg_filename]),
                           !.converted_files =
                               Append(@, [original |-> filename, converted |-> jpg_filename])]
            ELSE [L EXCEPT !.dir = saved.dir,
                           !.file_counter = counter,
                           !.assigned = Append(@, [original |-> filename, converted |-> jpg_filename]),
                           !.failed_files =
                               Append(@, [name |-> filename, error |-> "cannot write mode as JPEG"])]

(***************************************************************************)
(* Uploads                                                                 *)
(***************************************************************************)
EmptyBytes == [len |-> 0, image |-> "none"]
JunkBytes  == [len |-> 1, image |-> "none"]
ImageBytes(mode) == [len |-> 1, image |-> mode]

A_heic   == <<"a",".","h","e","i","c">>
A_1_heic == <<"a","_","1",".","h","e","i","c">>
A_HEIF   == <<"a",".","H","E","I","F">>
B_txt    == <<"b",".","t","x","t">>

\* the uploads a request is made of: an entry with no name, a file that is
\* no HEIC, and HEIC/HEIF uploads that are empty, undecodable, or decode to
\* a mode that is saved as is (RGB), converted (RGBA) or refused by JPEG (LA)
UploadFiles ==
    { [filename |-> <<>>, bytes |-> EmptyBytes],
      [filename |-> B_txt, bytes |-> JunkBytes] }
    \cup { [filename |-> A_heic, bytes |-> b] :
             b \in {EmptyBytes, JunkBytes, ImageBytes("RGB"),
                    ImageBytes("RGBA"), ImageBytes("LA")} }
    \cup { [filename |-> A_1_heic, bytes |-> b] :
             b \in {ImageBytes("RGB"), ImageBytes("LA")} }
    \cup { [filename |-> A_HEIF, bytes |-> b] :
             b \in {JunkBytes, ImageBytes("RGBA")} }

RECURSIVE SeqsUpTo(_, _)
SeqsUpTo(S, n) ==
    IF n = 0 THEN { <<>> }
    ELSE LET shorter == SeqsUpTo(S, n - 1)
         IN  shorter \cup { Append(s, x) : s \in { t \in shorter : Len(t) = n - 1 }, x \in S }

\* a request either lacks the 'files' field or carries one or more files
Requests ==
    { [has_field |-> FALSE, files |-> <<>>] }
    \cup { [has_field |-> TRUE, files |-> uploads] :
             uploads \in SeqsUpTo(UploadFiles, MaxFiles) \ { <<>> } }

Sids == {"s1", "s2"}

NoResponse == [status |-> 0]

\* the threads of the server that answer download requests
Threads == {"t1", "t2"}

IdleDownload ==
    [pc |-> "idle", session_id |-> "", files_to_zip |-> {}, result |-> NoResponse]

\* str(uuid.uuid4()): an identifier no earlier request was given; the
\* identifiers are interchangeable, so the pool's first unused one is taken
uuid4(root) == CHOOSE sid \in Sids : sid \notin DOMAIN root

\* the directory left to be created later
makedirs_deferred(root, name) == root

\* os.makedirs(session_dir, exist_ok=True)
makedirs(root, name) ==
    IF name \in DOMAIN root THEN root ELSE (name :> DirEntry(<<>>)) @@ root

(***************************************************************************)
(* convert_files as steps                                                  *)
(***************************************************************************)
WebInit ==
    /\ tempRoot = <<>>
    /\ pillow_cleans \in BOOLEAN
    /\ pc = "idle"
    /\ files = <<>>
    /\ idx = 0
    /\ session_id = ""
    /\ converted_files = <<>>
    /\ failed_files = <<>>
    /\ file_counter = <<>>
    /\ assigned = <<>>
    /\ response = NoResponse
    /\ dl = [t \in Threads |-> IdleDownload]
    /\ cleanup_response = NoResponse

\* the command line tool not started
NoArgs == [paths |-> <<>>, recursive |-> FALSE, output |-> <<>>, no_subfolder |-> FALSE]
NoRun == [total_converted |-> 0, total_failed |-> 0, log |-> <<>>]

CliIdle ==
    /\ args = NoArgs
    /\ cli_pc = "idle"
    /\ run = 0
    /\ path_i = 0
    /\ queue = <<>>
    /\ converted = 0
    /\ failed = 0
    /\ total_converted = 0
    /\ total_failed = 0
    /\ log = <<>>
    /\ first_run = NoRun

Init ==
    /\ WebInit
    /\ CliIdle
    /\ fs = <<>>

\* lines 32-40: the request-level rejections
no_files_uploaded(req) == ~req.has_field
no_files_selected(req) ==
    req.files = <<>> \/ \A i \in 1..Len(req.files) : req.files[i].filename = <<>>

\* lines 32-50: the request-level checks, then the session and its directory
convert_start(req) ==
    /\ files' = req.files
    /\ converted_files' = <<>>
    /\ failed_files' = <<>>
    /\ file_counter' = <<>>
    /\ assigned' = <<>>
    /\ idx' = 1
    /\ IF no_files_uploaded(req)
       THEN /\ response' = [status |-> 400, error |-> "No files uploaded"]
            /\ pc' = "done"
            /\ UNCHANGED <<tempRoot, session_id>>
       ELSE IF no_files_selected(req)
       THEN /\ response' = [status |-> 400, error |-> "No files selected"]
            /\ pc' = "done"
            /\ UNCHANGED <<tempRoot, session_id>>
       ELSE /\ session_id' = uuid4(tempRoot)
            /\ tempRoot' = makedirs(tempRoot, uuid4(tempRoot))
            /\ pc' = "loop"
            /\ response' = NoResponse
    /\ UNCHANGED <<pillow_cleans, dlVars, cliVars>>

ConvertStart ==
    /\ pc = "idle"
    /\ Sids \ DOMAIN tempRoot # {}
    /\ \E req \in Requests : convert_start(req)

LoopState ==
    [dir |-> tempRoot[session_id].files,
     converted_files |-> converted_files,
     failed_files |-> failed_files,
     file_counter |-> file_counter,
     assigned |-> assigned]

\* lines 52-107: one file
ConvertFile ==
    /\ pc = "loop"
    /\ idx <= Len(files)
    /\ LET L == process_file(LoopState, files[idx], pillow_cleans) IN
        /\ tempRoot' = [tempRoot EXCEPT ![session_id].files = L.dir]
        /\ converted_files' = L.converted_files
        /\ failed_files' = L.failed_files
        /\ file_counter' = L.file_counter
        /\ assigned' = L.assigned
    /\ idx' = idx + 1
    /\ UNCHANGED <<pillow_cleans, pc, files, session_id, response, dlVars, cliVars>>

\* the request failing as soon as one file failed
respond_error_on_any_failure(sid, conv, fail) ==
    IF fail # <<>>
    THEN [status |-> 400, error |-> "No files were converted", failed |-> fail]
    ELSE [status |-> 200, success |-> TRUE, session_id |-> sid,
          converted |-> conv, failed |-> fail,
          total_converted |-> Len(conv), total_failed |-> Len(fail)]

\* lines 113-126: the response
respond(sid, conv, fail) ==
    IF conv = <<>>
    THEN [status |-> 400, error |-> "No files were converted", failed |-> fail]
    ELSE [status |-> 200, success |-> TRUE, session_id |-> sid,
          converted |-> conv, failed |-> fail,
          total_converted |-> Len(conv), total_failed |-> Len(fail)]

ConvertRespond ==
    /\ pc = "loop"
    /\ idx > Len(files)
    /\ response' = respond(session_id, converted_files, failed_files)
    /\ pc' = "done"
    /\ UNCHANGED <<tempRoot, pillow_cleans, files, idx, session_id,
                   converted_files, failed_files, file_counter, assigned, dlVars, cliVars>>

NextConvert == ConvertStart \/ ConvertFile \/ ConvertRespond

SpecConvert == Init /\ [][NextConvert]_vars

(***************************************************************************)
(* convert_files as one step, for the specification of the downloads       *)
(***************************************************************************)
EmptyLoop ==
    [dir |-> <<>>, converted_files |-> <<>>, failed_files |-> <<>>,
     file_counter |-> <<>>, assigned |-> <<>>]

RECURSIVE run_loop(_, _, _, _)
run_loop(L, uploads, i, cleans) ==
    IF i > Len(uploads) THEN L
    ELSE run_loop(process_file(L, uploads[i], cleans), uploads, i + 1, cleans)

\* the session directories a request that passes the request-level checks
\* can leave, by what the imaging library does with a failed save
SessionOutcomes ==
    { [cleans |-> c, dir |-> run_loop(EmptyLoop, req.files, 1, c).dir] :
        req \in { r \in Requests : /\ ~no_files_uploaded(r)
                                   /\ ~no_files_selected(r)
                                   /\ Len(r.files) <= MaxSessionFiles },
        c \in BOOLEAN }

\* a whole convert request: its session directory and the files saved in
\* it.  The response goes to the client and leaves nothing on the server.
ConvertRequest ==
    /\ Sids \ DOMAIN tempRoot # {}
    /\ \E o \in SessionOutcomes :
        /\ o.cleans = pillow_cleans
        /\ tempRoot' = [makedirs(tempRoot, uuid4(tempRoot))
                            EXCEPT ![uuid4(tempRoot)].files = o.dir]
    /\ UNCHANGED <<pillow_cleans, pc, files, idx, session_id, converted_files,
                   failed_files, file_counter, assigned, response, dlVars, cliVars>>

(***************************************************************************)
(* download_zip                                                            *)
(***************************************************************************)
\* f"{session_id}.zip"
zip_name(sid) == sid \o ".zip"

\* the ids a client asks for: ids of sessions, and the names the archives
\* of earlier downloads have in TEMP_DIR
RequestedIds == Sids \cup { zip_name(s) : s \in Sids }

\* os.path.isfile(os.path.join(session_dir, filename))
isfile(root, sid, filename) ==
    isdir(root, sid) /\ filename \in DOMAIN root[sid].files

finish(t, result) ==
    dl' = [dl EXCEPT ![t].pc = "done", ![t].result = result]

\* lines 131-143: the session directory is looked up and listed
download_check(t, sid) ==
    /\ dl[t].pc \in {"idle", "done"}
    /\ IF ~exists(tempRoot, sid)
       THEN dl' = [dl EXCEPT ![t] =
                [IdleDownload EXCEPT !.pc = "done", !.session_id = sid,
                    !.result = [status |-> 404, error |-> "Session not found or expired"]]]
       ELSE IF ~isdir(tempRoot, sid)
       THEN \* os.listdir of a regular file raises; nothing catches it
            dl' = [dl EXCEPT ![t] =
                [IdleDownload EXCEPT !.pc = "done", !.session_id = sid,
                    !.result = [status |-> 500, error |-> "NotADirectoryError"]]]
       ELSE IF DOMAIN tempRoot[sid].files = {}
       THEN dl' = [dl EXCEPT ![t] =
                [IdleDownload EXCEPT !.pc = "done", !.session_id = sid,
                    !.result = [status |-> 404, error |-> "No files to download"]]]
       ELSE dl' = [dl EXCEPT ![t] =
                [IdleDownload EXCEPT !.pc = "open", !.session_id = sid,
                    !.files_to_zip = DOMAIN tempRoot[sid].files]]
    /\ UNCHANGED <<webVars, cleanup_response, cliVars>>

\* lines 146-148: zipfile.ZipFile(zip_path, 'w') creates or truncates the
\* archive file; a thread still writing it has its file truncated under it
download_open(t) ==
    /\ dl[t].pc = "open"
    /\ LET zip == zip_name(dl[t].session_id)
           old == IF exists(tempRoot, zip) THEN tempRoot[zip].archive ELSE NoArchive
       IN  IF isdir(tempRoot, zip)
           THEN /\ finish(t, [status |-> 500, error |-> "IsADirectoryError"])
                /\ UNCHANGED tempRoot
           ELSE /\ tempRoot' = (zip :> FileEntry([complete |-> FALSE, members |-> {},
                                                   writers |-> old.writers \cup {t},
                                                   clobbered |-> old.writers])) @@ tempRoot
                /\ dl' = [dl EXCEPT ![t].pc = "write"]
    /\ UNCHANGED <<pillow_cleans, pc, files, idx, session_id, converted_files,
                   failed_files, file_counter, assigned, response, cleanup_response, cliVars>>

\* lines 149-153 and the end of the with block: the regular files of the
\* listing are written and the archive is closed.  The last thread to have
\* opened the file leaves a whole archive.  A thread whose file was truncated
\* under it writes on at its own offset: what the file holds while the other
\* writer is still at work depends on how far that one has come.
download_write(t) ==
    /\ dl[t].pc = "write"
    /\ LET sid == dl[t].session_id
           zip == zip_name(sid)
           ar  == tempRoot[zip].archive
           members == { f \in dl[t].files_to_zip : isfile(tempRoot, sid, f) }
       IN  \E whole \in IF t \notin ar.clobbered THEN {TRUE}
                        ELSE IF ar.writers = {t} THEN {ar.complete}
                        ELSE BOOLEAN :
               tempRoot' = [tempRoot EXCEPT ![zip].archive =
                              [complete |-> whole, members |-> members,
                               writers |-> ar.writers \ {t},
                               clobbered |-> ar.clobbered \ {t}]]
    /\ dl' = [dl EXCEPT ![t].pc = "verify"]
    /\ UNCHANGED <<pillow_cleans, pc, files, idx, session_id, converted_files,
                   failed_files, file_counter, assigned, response, cleanup_response, cliVars>>

\* lines 155-158: the archive is reopened for reading; a file that is no
\* whole archive raises BadZipFile unless its end is already in place
download_verify(t) ==
    /\ dl[t].pc = "verify"
    /\ \/ dl' = [dl EXCEPT ![t].pc = "send"]
       \/ /\ ~tempRoot[zip_name(dl[t].session_id)].archive.complete
          /\ finish(t, [status |-> 500, error |-> "BadZipFile"])
    /\ UNCHANGED <<webVars, cleanup_response, cliVars>>

\* lines 160-169: send_file sends what the file at zip_path holds
download_send(t) ==
    /\ dl[t].pc = "send"
    /\ LET ar == tempRoot[zip_name(dl[t].session_id)].archive
       IN  finish(t, [status |-> 200, download_name |-> "converted_images.zip",
                      archive |-> [complete |-> ar.complete, members |-> ar.members]])
    /\ UNCHANGED <<webVars, cleanup_response, cliVars>>

\* the handler deleting the session directory (shutil.rmtree)
cleanup_deleting(sid) ==
    /\ tempRoot' = [n \in DOMAIN tempRoot \ {sid} |-> tempRoot[n]]
    /\ cleanup_response' = [status |-> 200, success |-> TRUE]
    /\ UNCHANGED <<pillow_cleans, pc, files, idx, session_id, converted_files,
                   failed_files, file_counter, assigned, response, dl, cliVars>>

\* lines 172-179: nothing is deleted
cleanup(sid) ==
    /\ cleanup_response' = [status |-> 200, success |-> TRUE]
    /\ UNCHANGED <<webVars, dl, cliVars>>

DownloadCheck  == \E t \in Threads, sid \in RequestedIds : download_check(t, sid)
DownloadOpen   == \E t \in Threads : download_open(t)
DownloadWrite  == \E t \in Threads : download_write(t)
DownloadVerify == \E t \in Threads : download_verify(t)
DownloadSend   == \E t \in Threads : download_send(t)
Cleanup        == \E sid \in RequestedIds : cleanup(sid)

NextDownload ==
    \/ ConvertRequest
    \/ DownloadCheck
    \/ DownloadOpen
    \/ DownloadWrite
    \/ DownloadVerify
    \/ DownloadSend
    \/ Cleanup

SpecDownload == Init /\ [][NextDownload]_vars

(***************************************************************************)
(* Properties of download_zip and cleanup                                  *)
(***************************************************************************)
answered(t) == dl[t].pc = "done"

\* C6: a download answers 404 'Session not found' when TEMP_DIR holds no
\* directory of the requested id, 404 'No files to download' when that
\* directory is empty, and an archive otherwise, also for the names earlier
\* downloads have left in TEMP_DIR.  (Stated of the step that answers,
\* against TEMP_DIR as the handler finds it.)
C6_DownloadAnswers ==
    [][ \A t \in Threads : (dl'[t] # dl[t] /\ dl'[t].pc = "done") =>
            LET sid == dl'[t].session_id
                r == dl'[t].result
            IN  IF ~isdir(tempRoot, sid)
                THEN r.status = 404 /\ r.error = "Session not found or expired"
                ELSE IF DOMAIN tempRoot[sid].files = {}
                THEN r.status = 404 /\ r.error = "No files to download"
                ELSE r.status = 200
      ]_vars

\* the directories of TEMP_DIR and what they hold
session_dirs(root) ==
    [n \in { m \in DOMAIN root : root[m].kind = "dir" } |-> root[n].files]

C10_ArchivesWhole ==
    \A t \in Threads :
        (answered(t) /\ dl[t].result.status = 200) =>
            /\ dl[t].result.archive.complete
            /\ dl[t].result.archive.members = DOMAIN tempRoot[dl[t].session_id].files

(***************************************************************************)
(* Properties of convert_files                                             *)
(***************************************************************************)
base_of(entry) == splitext(entry.original)[1]

bare_name(b) == b \o DotJpg
suffixed_name(b, n) == b \o <<"_">> \o str(n) \o DotJpg

\* the N of <b>_N.jpg, 0 for any other name
suffix_of(b, name) ==
    IF \E n \in 1..Len(files) : name = suffixed_name(b, n)
    THEN CHOOSE n \in 1..Len(files) : name = suffixed_name(b, n)
    ELSE 0

\* C1: the output names of the files converted in one request are pairwise
\* distinct, so no saved file is overwritten by a later one.
C1_OutputNamesDistinct ==
    \A i, j \in 1..Len(converted_files) :
        i # j => converted_files[i].converted # converted_files[j].converted

\* C2 as stated: among the converted files of one request that share a base
\* name, exactly one has the bare name <base>.jpg and the others have
\* <base>_N.jpg with N strictly increasing in input order.
C2_OneBareRestSuffixed ==
    \A i \in 1..Len(converted_files) :
        LET b == base_of(converted_files[i])
            group == { j \in 1..Len(converted_files) : base_of(converted_files[j]) = b }
            bare == { j \in group : converted_files[j].converted = bare_name(b) }
        IN  Cardinality(group) >= 2 =>
              /\ Cardinality(bare) = 1
              /\ \A j \in group \ bare : suffix_of(b, converted_files[j].converted) > 0
              /\ \A j, k \in group \ bare :
                    j < k => suffix_of(b, converted_files[j].converted)
                               < suffix_of(b, converted_files[k].converted)

\* C2 amended: among the inputs that are decoded (and so are given a name),
\* the first of a base name is given <base>.jpg and the k-th later one
\* <base>_k.jpg, whether or not its save then succeeds; the converted files
\* are among them, so within one base name their suffixes strictly increase
\* in input order and at most one has the bare name.
C2_NamedByOccurrence ==
    /\ \A k \in 1..Len(assigned) :
        LET b == base_of(assigned[k])
            m == Cardinality({ j \in 1..(k-1) : base_of(assigned[j]) = b })
        IN  assigned[k].converted = IF m = 0 THEN bare_name(b) ELSE suffixed_name(b, m)
    /\ \A i \in 1..Len(converted_files) :
        \E k \in 1..Len(assigned) : assigned[k] = converted_files[i]
    /\ \A i, j \in 1..Len(converted_files) :
        (i < j /\ base_of(converted_files[i]) = base_of(converted_files[j]))
          => suffix_of(base_of(converted_files[i]), converted_files[i].converted)
               < suffix_of(base_of(converted_files[j]), converted_files[j].converted)

\* a.heic uploaded twice and converted twice: a.jpg, then a_1.jpg
C2_Witness ==
    /\ pc = "done"
    /\ Len(converted_files) = 2
    /\ converted_files[1] = [original |-> A_heic, converted |-> <<"a",".","j","p","g">>]
    /\ converted_files[2] = [original |-> A_heic, converted |-> <<"a","_","1",".","j","p","g">>]

\* C3 as stated: the session directory is created on the first successful
\* conversion, so while nothing has been converted there is none.
C3_NoSessionBeforeFirstSuccess ==
    (pc \in {"loop", "done"} /\ converted_files = <<>>) => DOMAIN tempRoot = {}

\* C3 amended: a request that passes the request-level checks is given its
\* session id and its directory before any file is processed; every
\* converted file of the request is in that one directory; a request that
\* is rejected creates nothing, and a request in which no file converts
\* leaves its directory behind and does not return the session id.
C3_SessionCreatedAtStart ==
    /\ pc = "idle" => DOMAIN tempRoot = {}
    /\ (pc # "idle" /\ session_id = "") =>
          /\ DOMAIN tempRoot = {}
          /\ pc = "done" /\ response.status = 400
          /\ response.error \in {"No files uploaded", "No files selected"}
    /\ (pc # "idle" /\ session_id # "") =>
          /\ DOMAIN tempRoot = {session_id}
          /\ isdir(tempRoot, session_id)
          /\ \A i \in 1..Len(converted_files) :
                converted_files[i].converted \in DOMAIN tempRoot[session_id].files
          /\ (pc = "done" /\ converted_files = <<>>) =>
                "session_id" \notin DOMAIN response

\* every file of the request failed: the empty session directory is there
C3_Witness ==
    /\ pc = "done"
    /\ session_id # ""
    /\ converted_files = <<>>
    /\ isdir(tempRoot, session_id)
    /\ response.error = "No files were converted"

\* what the request's inputs say about an upload: it is converted exactly
\* when it is a non-empty, decodable HEIC/HEIF upload of a mode JPEG holds
convertible(file) ==
    /\ is_heic(file.filename)
    /\ file.bytes.len > 0
    /\ decodable(file.bytes)
    /\ jpeg_writable(normalize_mode(file.bytes.image))

named_inputs == { i \in 1..Len(files) : files[i].filename # <<>> }
successes == { i \in named_inputs : convertible(files[i]) }

\* C4: a request with at least one named upload fails with 'No files were
\* converted' exactly when no upload converts; otherwise it succeeds with
\* the session id, both lists, and totals equal to the lists' lengths, also
\* when some uploads failed.
C4_ErrorIffNothingConverted ==
    (pc = "done" /\ session_id # "") =>
        IF successes = {}
        THEN /\ response.status = 400
             /\ response.error = "No files were converted"
             /\ Len(response.failed) = Cardinality(named_inputs)
        ELSE /\ response.status = 200
             /\ response.success
             /\ response.session_id = session_id
             /\ response.converted = converted_files
             /\ response.failed = failed_files
             /\ response.total_converted = Len(response.converted)
             /\ response.total_failed = Len(response.failed)
             /\ response.total_converted = Cardinality(successes)
             /\ response.total_failed = Cardinality(named_inputs \ successes)

\* a partly failed batch answered with success
C4_Witness ==
    /\ pc = "done"
    /\ response.status = 200
    /\ response.total_converted >= 1
    /\ response.total_failed >= 1

(***************************************************************************)
(* convert_heic_cli.py: paths and the file system                          *)
(*                                                                         *)
(* A path is the sequence of its components, each a name; the empty path   *)
(* is the working directory, and stands for "no directory given".          *)
(***************************************************************************)
Ascii == <<" ", ".", "/", "0","1","2","3","4","5","6","7","8","9",
           "A","B","C","D","E","F","G","H","I","J","K","L","M",
           "N","O","P","Q","R","S","T","U","V","W","X","Y","Z", "_",
           "a","b","c","d","e","f","g","h","i","j","k","l","m",
           "n","o","p","q","r","s","t","u","v","w","x","y","z">>

ord(c) == CHOOSE i \in 1..Len(Ascii) : Ascii[i] = c

Min(a, b) == IF a <= b THEN a ELSE b

\* str < str
str_lt(a, b) ==
    \E k \in 1..(Min(Len(a), Len(b)) + 1) :
        /\ \A j \in 1..(k-1) : a[j] = b[j]
        /\ IF k > Len(a) THEN k <= Len(b)
           ELSE k <= Len(b) /\ ord(a[k]) < ord(b[k])

\* Path < Path: the lists of components compared
path_lt(p, q) ==
    \E k \in 1..(Min(Len(p), Len(q)) + 1) :
        /\ \A j \in 1..(k-1) : p[j] = q[j]
        /\ IF k > Len(p) THEN k <= Len(q)
           ELSE k <= Len(q) /\ str_lt(p[k], q[k])

\* sorted(paths)
RECURSIVE sorted(_)
sorted(S) ==
    IF S = {} THEN <<>>
    ELSE LET m == CHOOSE x \in S : \A y \in S \ {x} : path_lt(x, y)
         IN  <<m>> \o sorted(S \ {m})

NoDir == <<>>
parent(p) == SubSeq(p, 1, Len(p) - 1)
name_of(p) == p[Len(p)]

\* Path.stem: the name up to its last dot, unless that dot is first or last
stem(name) ==
    LET i == rfind(name, ".")
    IN  IF i > 1 /\ i < Len(name) THEN SubSeq(name, 1, i - 1) ELSE name

DirNode == [kind |-> "dir", content |-> EmptyBytes]
FileNode(bytes) == [kind |-> "file", content |-> bytes]
JpegBytes == [len |-> 1, image |-> "jpeg"]
OldBytes  == [len |-> 1, image |-> "old"]

path_exists(f, p) == p = NoDir \/ p \in DOMAIN f
is_dir(f, p)  == p = NoDir \/ (p \in DOMAIN f /\ f[p].kind = "dir")
is_file(f, p) == p \in DOMAIN f /\ f[p].kind = "file"

\* Path.mkdir(parents=True, exist_ok=True): raises when the path or one of
\* its parents is there and is no directory
mkdir(f, dir) ==
    IF \E k \in 1..Len(dir) : is_file(f, SubSeq(dir, 1, k))
    THEN [raised |-> TRUE, fs |-> f]
    ELSE [raised |-> FALSE,
          fs |-> [q \in { SubSeq(dir, 1, k) : k \in 1..Len(dir) } \ DOMAIN f |-> DirNode] @@ f]

(***************************************************************************)
(* convert_heic_to_jpg                                                     *)
(***************************************************************************)
Outcome(f, raised, dir, jpg_path, outcome) ==
    [fs |-> f, raised |-> raised, dir |-> dir, jpg_path |-> jpg_path, outcome |-> outcome]

\* lines 30-76.  The result is what became of the file system, whether an
\* exception left the function, the directory and path of the output, and
\* "not found" | "skipped" | "converted" | "failed" (None is returned for
\* "not found" and "failed", jpg_path otherwise)
convert_heic_to_jpg(f, heic_path, output_dir, cleans) ==
    IF ~path_exists(f, heic_path)
    THEN Outcome(f, FALSE, NoDir, NoDir, "not found")
    ELSE
      LET made == IF output_dir # NoDir THEN mkdir(f, output_dir)
                  ELSE [raised |-> FALSE, fs |-> f]
          dir == IF output_dir # NoDir THEN output_dir ELSE parent(heic_path)
          jpg_path == Append(dir, stem(name_of(heic_path)) \o DotJpg)
      IN  IF made.raised
          THEN \* mkdir is outside the try block
               Outcome(f, TRUE, dir, jpg_path, "raised")
          ELSE IF path_exists(made.fs, jpg_path)
          THEN Outcome(made.fs, FALSE, dir, jpg_path, "skipped")
          ELSE IF ~is_file(made.fs, heic_path) \/ ~decodable(made.fs[heic_path].content)
          THEN Outcome(made.fs, FALSE, dir, jpg_path, "failed")
          ELSE IF jpeg_writable(normalize_mode(made.fs[heic_path].content.image))
          THEN Outcome((jpg_path :> FileNode(JpegBytes)) @@ made.fs,
                       FALSE, dir, jpg_path, "converted")
          ELSE \* img.save raised: the file it created is removed or left
               Outcome(IF cleans THEN made.fs
                       ELSE (jpg_path :> FileNode(EmptyBytes)) @@ made.fs,
                       FALSE, dir, jpg_path, "failed")

\* "if result:" of the callers
truthy(outcome) == outcome \in {"skipped", "converted"}

(***************************************************************************)
(* convert_folder: the scan                                                *)
(***************************************************************************)
JpgFiles == <<"j","p","g"," ","f","i","l","e","s">>

\* folder_path.glob(pattern) / folder_path.rglob(pattern), pattern "*" + ext
glob(f, folder, ext, recursive) ==
    { p \in DOMAIN f :
        /\ Len(p) > Len(folder)
        /\ SubSeq(p, 1, Len(folder)) = folder
        /\ recursive \/ Len(p) = Len(folder) + 1
        /\ endswith(name_of(p), ext) }

\* str(f).lower()
lower_path(p) == [i \in 1..Len(p) |-> lower(p[i])]

\* lines 106-113: the first of the paths that agree when lowered is kept
RECURSIVE remove_duplicates(_, _, _)
remove_duplicates(list, i, seen) ==
    IF i > Len(list) THEN <<>>
    ELSE IF lower_path(list[i]) \in seen
    THEN remove_duplicates(list, i + 1, seen)
    ELSE <<list[i]>> \o remove_duplicates(list, i + 1, seen \cup {lower_path(list[i])})

Range(list) == { list[i] : i \in 1..Len(list) }

\* lines 98-113 and the sorted() of line 125
heic_files(f, folder, recursive) ==
    LET found == sorted(glob(f, folder, DotHeic, recursive))
                 \o sorted(glob(f, folder, <<".","H","E","I","C">>, recursive))
                 \o sorted(glob(f, folder, DotHeif, recursive))
                 \o sorted(glob(f, folder, <<".","H","E","I","F">>, recursive))
    IN  sorted(Range(remove_duplicates(found, 1, {})))

(***************************************************************************)
(* The files and command lines of the runs                                 *)
(***************************************************************************)
Dd == << <<"d">> >>
Ds == << <<"d">>, <<"s">> >>
Oo == << <<"o">> >>
A_heif == <<"a",".","h","e","i","f">>
A_jpg  == <<"a",".","j","p","g">>

\* a folder d with a.heic (undecodable, or an image JPEG holds or refuses),
\* maybe a.heif beside it and a.heic in the subfolder d/s
Sources ==
    { (Append(Dd, A_heic) :> FileNode(b)) @@ more @@ sub @@ (Dd :> DirNode) :
        b \in {JunkBytes, ImageBytes("RGB"), ImageBytes("LA")},
        more \in { <<>>, Append(Dd, A_heif) :> FileNode(ImageBytes("RGBA")) },
        sub \in { <<>>,
                  (Ds :> DirNode) @@ (Append(Ds, A_heic) :> FileNode(ImageBytes("RGB"))) } }

\* what is there besides: nothing, an output of an earlier run, or a regular
\* file where an output directory is to be
Leftovers ==
    { <<>>,
      Append(Dd, A_jpg) :> FileNode(OldBytes),
      (Append(Dd, JpgFiles) :> DirNode)
          @@ (Append(Append(Dd, JpgFiles), A_jpg) :> FileNode(OldBytes)),
      Append(Dd, JpgFiles) :> FileNode(OldBytes),
      Oo :> FileNode(OldBytes) }

FileSystems == { src @@ left : src \in Sources, left \in Leftovers }

CommandLines ==
    { [paths |-> ps, recursive |-> r, output |-> o, no_subfolder |-> n] :
        ps \in { <<Dd>>,
                 <<Append(Dd, A_heic)>>,
                 <<Append(Dd, A_heic), Append(Dd, A_heif)>>,
                 <<Append(Dd, A_heic), Append(Ds, A_heic)>>,
                 << << <<"x">> >>, Dd >> },
        r \in BOOLEAN, o \in {NoDir, Oo}, n \in BOOLEAN }

(***************************************************************************)
(* main and convert_folder as steps                                        *)
(***************************************************************************)
InitCli ==
    /\ WebInit
    /\ CliIdle
    /\ fs \in FileSystems

LogEntry(heic_path, r) ==
    [heic_path |-> heic_path, dir |-> r.dir, jpg_path |-> r.jpg_path, outcome |-> r.outcome]

\* lines 229-237: the command line is parsed; without paths the program
\* turns to its interactive mode, which is not part of the model
CliStart ==
    /\ cli_pc = "idle"
    /\ \E a \in CommandLines : args' = a
    /\ cli_pc' = "main"
    /\ run' = 1
    /\ path_i' = 1
    /\ total_converted' = 0
    /\ total_failed' = 0
    /\ UNCHANGED <<fs, queue, converted, failed, log, first_run, webVars, dlVars>>

\* lines 239-248: a path that is a file
MainFile ==
    /\ cli_pc = "main"
    /\ path_i <= Len(args.paths)
    /\ is_file(fs, args.paths[path_i])
    /\ LET r == convert_heic_to_jpg(fs, args.paths[path_i], args.output, pillow_cleans)
       IN  /\ fs' = r.fs
           /\ log' = Append(log, LogEntry(args.paths[path_i], r))
           /\ IF r.raised
              THEN /\ cli_pc' = "crashed"
                   /\ UNCHANGED <<path_i, total_converted, total_failed>>
              ELSE /\ cli_pc' = "main"
                   /\ path_i' = path_i + 1
                   /\ total_converted' = total_converted + (IF truthy(r.outcome) THEN 1 ELSE 0)
                   /\ total_failed' = total_failed + (IF truthy(r.outcome) THEN 0 ELSE 1)
    /\ UNCHANGED <<args, run, queue, converted, failed, first_run, webVars, dlVars>>

\* lines 250-257 and 92-123: a path that is a folder is scanned
MainFolder ==
    /\ cli_pc = "main"
    /\ path_i <= Len(args.paths)
    /\ ~is_file(fs, args.paths[path_i])
    /\ is_dir(fs, args.paths[path_i])
    /\ LET found == heic_files(fs, args.paths[path_i], args.recursive)
       IN  IF found = <<>>
           THEN /\ path_i' = path_i + 1
                /\ UNCHANGED <<cli_pc, queue>>
           ELSE /\ cli_pc' = "folder"
                /\ queue' = found
                /\ UNCHANGED path_i
    /\ converted' = 0
    /\ failed' = 0
    /\ UNCHANGED <<fs, args, run, total_converted, total_failed, log, first_run,
                   webVars, dlVars>>

\* lines 261-262: a path that is neither
MainMissing ==
    /\ cli_pc = "main"
    /\ path_i <= Len(args.paths)
    /\ ~is_file(fs, args.paths[path_i])
    /\ ~is_dir(fs, args.paths[path_i])
    /\ path_i' = path_i + 1
    /\ UNCHANGED <<fs, args, cli_pc, run, queue, converted, failed, total_converted,
                   total_failed, log, first_run, webVars, dlVars>>

\* lines 125-136: one file of the folder
FolderFile ==
    /\ cli_pc = "folder"
    /\ queue # <<>>
    /\ LET heic_file == Head(queue)
           output_dir == IF ~args.no_subfolder
                         THEN Append(parent(heic_file), JpgFiles)
                         ELSE parent(heic_file)
           r == convert_heic_to_jpg(fs, heic_file, output_dir, pillow_cleans)
       IN  /\ fs' = r.fs
           /\ log' = Append(log, LogEntry(heic_file, r))
           /\ IF r.raised
              THEN /\ cli_pc' = "crashed"
                   /\ UNCHANGED <<queue, converted, failed>>
              ELSE /\ cli_pc' = "folder"
                   /\ queue' = Tail(queue)
                   /\ converted' = converted + (IF truthy(r.outcome) THEN 1 ELSE 0)
                   /\ failed' = failed + (IF truthy(r.outcome) THEN 0 ELSE 1)
    /\ UNCHANGED <<args, run, path_i, total_converted, total_failed, first_run,
                   webVars, dlVars>>

\* lines 138-139 and 258-259: the folder's counts are added to the totals
FolderReturn ==
    /\ cli_pc = "folder"
    /\ queue = <<>>
    /\ total_converted' = total_converted + converted
    /\ total_failed' = total_failed + failed
    /\ converted' = 0
    /\ failed' = 0
    /\ cli_pc' = "main"
    /\ path_i' = path_i + 1
    /\ UNCHANGED <<fs, args, run, queue, log, first_run, webVars, dlVars>>

\* lines 264-266: the totals are printed
MainDone ==
    /\ cli_pc = "main"
    /\ path_i > Len(args.paths)
    /\ cli_pc' = "done"
    /\ UNCHANGED <<fs, args, run, path_i, queue, converted, failed, total_converted,
                   total_failed, log, first_run, webVars, dlVars>>

\* the same command line run once more on what the first run left
Rerun ==
    /\ cli_pc = "done"
    /\ run = 1
    /\ first_run' = [total_converted |-> total_converted,
                     total_failed |-> total_failed, log |-> log]
    /\ run' = 2
    /\ cli_pc' = "main"
    /\ path_i' = 1
    /\ total_converted' = 0
    /\ total_failed' = 0
    /\ log' = <<>>
    /\ UNCHANGED <<fs, args, queue, converted, failed, webVars, dlVars>>

NextCli ==
    \/ CliStart
    \/ MainFile
    \/ MainFolder
    \/ MainMissing
    \/ FolderFile
    \/ FolderReturn
    \/ MainDone
    \/ Rerun

SpecCli == InitCli /\ [][NextCli]_vars

(***************************************************************************)
(* Properties of the command line tool                                     *)
(***************************************************************************)
\* C5: a failure while one file is processed is recorded for that file and
\* the later files are still processed: no error leaves the per-file
\* handler and ends the run.
C5_NoErrorEscapes == cli_pc # "crashed"

\* the inputs counted as converted and as failed so far
counted_converted == total_converted + converted
counted_failed == total_failed + failed

\* C8: an input whose target .jpg is there is skipped and counted as
\* converted, so a re-run of the same batch overwrites nothing and reports
\* the same converted count as the first run (stated here of its conclusion,
\* and already for a library that leaves no file behind when a save fails).
C8_RerunReportsSameCount ==
    (pillow_cleans /\ run = 2 /\ cli_pc = "done") =>
        total_converted = first_run.total_converted

\* What does hold of skipping: no step changes or replaces a file that is
\* there; an input whose target .jpg is there is skipped and counted as
\* converted, not as failed, with the file system left as it is; and a
\* re-run counts as converted, by skipping, every input the first run counted
\* as converted, so its converted count is never smaller than the first
\* run's.
SkipKeepsFiles ==
    [][ /\ \A p \in DOMAIN fs :
              fs[p].kind = "file" => (p \in DOMAIN fs' /\ fs'[p] = fs[p])
        /\ Len(log') = Len(log) + 1 =>
              LET e == log'[Len(log')]
              IN  (e.jpg_path # NoDir /\ path_exists(fs, e.jpg_path)) =>
                      /\ e.outcome = "skipped"
                      /\ fs' = fs
                      /\ counted_converted' = counted_converted + 1
                      /\ counted_failed' = counted_failed
        /\ (run' = 2 /\ cli_pc' = "done" /\ cli_pc # "done") =>
              /\ total_converted' >= first_run.total_converted
              /\ \A i \in 1..Len(first_run.log) :
                    truthy(first_run.log[i].outcome) =>
                        /\ i <= Len(log')
                        /\ log'[i].heic_path = first_run.log[i].heic_path
                        /\ log'[i].outcome = "skipped"
      ]_vars

\* the output location policy of the specification
policy_dir(a, heic_path) ==
    IF a.output # NoDir THEN a.output
    ELSE IF ~a.no_subfolder THEN Append(parent(heic_path), JpgFiles)
    ELSE parent(heic_path)

\* C9: every input, given as a file or found in a folder, has its output in
\* the explicit output directory when one is given, else in 'jpg files'
\* beside the source when the subfolder option is set, else beside the
\* source.
C9_OutputLocationPolicy ==
    \A i \in 1..Len(log) :
        log[i].outcome # "not found" =>
            log[i].dir = policy_dir(args, log[i].heic_path)

====
